---- MODULE Spec2Model ----
(***************************************************************************)
(* zod-dev: the conditional gate (withDev, createWithDev, createDevParse)  *)
(* and the collection operations of createArrayOperations (isCollection,   *)
(* getIndices, get, remove, add, update), as written in src/src/index.ts   *)
(* and src/src/main.ts.                                                    *)
(*                                                                         *)
(* JavaScript values are tagged records.  A call's outcome is a record     *)
(* that says whether the call returned or threw, the value or the error,   *)
(* and how many times the schema's parse was invoked during the call.      *)
(***************************************************************************)
EXTENDS Integers, Sequences, FiniteSets, TLC

\* ------------------------------------------------------------------ bounds
\* Longest collection the caller starts from.
MaxLen == 2
\* Longest list of identifiers or of added records passed in one call.
MaxArgs == 2

\* ------------------------------------------------------------ JS values
Undefined == [kind |-> "undefined"]

Str(s) == [kind |-> "string", str |-> s]

Bool(b) == [kind |-> "boolean", b |-> b]

Num(n) == [kind |-> "number", num |-> n]

Arr(s) == [kind |-> "array", items |-> s]

Fn(n) == [kind |-> "function", name |-> n]

Obj(id, age, extra) == [kind |-> "object", id |-> id, age |-> age, extra |-> extra]

\* JavaScript truthiness, as used by `!x` and `if (x)`.
Truthy(v) ==
  CASE v.kind = "undefined" -> FALSE
    [] v.kind = "boolean" -> v.b
    [] v.kind = "string" -> v.str # ""
    [] v.kind = "number" -> v.num # 0
    [] OTHER -> TRUE

\* --------------------------------------------------------------- outcomes
NoError == [name |-> "none"]

ZodError == [name |-> "ZodError"]

TypeError == [name |-> "TypeError"]

Error(message) == [name |-> "Error", message |-> message]

NotFoundError(singleId) == [name |-> "Error", message |-> "Episode does not exist", id |-> singleId]

Return(v, n) == [status |-> "return", value |-> v, error |-> NoError, parses |-> n]

Throw(e, n) == [status |-> "throw", value |-> Undefined, error |-> e, parses |-> n]

\* The outcome `out` of a later step, after `n` earlier parse invocations.
After(n, out) == [out EXCEPT !.parses = out.parses + n]

\* ------------------------------------------------- the external validator
\* The item schemas handed to the factories.  The first three differ in how
\* the object schema treats a key it does not declare (zod's z.object):
\* "strip" drops it, "passthrough" keeps it, "strict" rejects the object.
\* "transform" is a stripping object schema whose age carries a transform,
\* age: z.number().int().min(0).transform((age) => age + 1).
Modes == {"strip", "passthrough", "strict", "transform"}

ItemSchema(mode) == [type |-> "object", mode |-> mode]

\* z.array(schema)
ArraySchema(s) == [type |-> "array", element |-> s]

ItemConforms(mode, v) ==
  /\ v.kind = "object"
  /\ v.age >= 0
  /\ (mode = "strict" => ~v.extra)

ItemOutput(mode, v) ==
  CASE mode = "strip" -> [v EXCEPT !.extra = FALSE]
    [] mode = "transform" -> [v EXCEPT !.extra = FALSE, !.age = @ + 1]
    [] OTHER -> v

Conforms(s, v) ==
  IF s.type = "array"
  THEN /\ v.kind = "array"
       /\ \A i \in 1..Len(v.items) : ItemConforms(s.element.mode, v.items[i])
  ELSE ItemConforms(s.mode, v)

Output(s, v) ==
  IF s.type = "array"
  THEN Arr([i \in 1..Len(v.items) |-> ItemOutput(s.element.mode, v.items[i])])
  ELSE ItemOutput(s.mode, v)

\* schema.parse(value): the validated (possibly normalised) value, or a throw.
parse(s, v) == IF Conforms(s, v) THEN Return(Output(s, v), 1) ELSE Throw(ZodError, 1)

\* ------------------------------------------------------------- the gate
\* Every devParse has the body `if (!condition) return value;
\* return schema.parse(value);`

\* withDev(current, condition).devParse(value)
withDev(current, cond, v) == IF ~cond THEN Return(v, 0) ELSE parse(current, v)

\* createWithDev(condition)(current).devParse(value)
createWithDev(cond, current, v) == IF ~cond THEN Return(v, 0) ELSE parse(current, v)

createDevParseAlwaysParses(cond, v, s) == parse(s, v)

createDevParseNeverParses(cond, v, s) == Return(v, 0)

\* createDevParse(condition)(value, schema)
createDevParse(cond, v, s) == IF ~cond THEN Return(v, 0) ELSE parse(s, v)

\* x.parse(v) for any JavaScript value x: a schema validates, any other
\* value has no parse method to call.
IsSchema(x) == "type" \in DOMAIN x

callParse(x, v) == IF IsSchema(x) THEN parse(x, v) ELSE Throw(TypeError, 0)

\* createDevParse(condition) of src/index.ts, whose returned function declares
\* its parameters as (schema, value), applied to two arguments by position:
\* `if (!condition) return value; return schema.parse(value);`
indexCreateDevParse(cond, first, second) ==
  IF ~cond THEN Return(second, 0) ELSE callParse(first, second)

\* A `!condition` that calls a condition given as a function.
NotCalling(condition) ==
  IF condition.kind = "function" THEN condition.name # "returnsTrue" ELSE ~Truthy(condition)

\* `!condition`, for whatever value the caller passed as the condition.
Not(condition) == ~Truthy(condition)

\* withDev(current, condition).devParse(v), the condition being any value.
withDevGiven(current, condition, v) ==
  IF Not(condition) THEN Return(v, 0) ELSE parse(current, v)

\* createDevParse(condition)(v, s), the condition being any value.
createDevParseGiven(condition, v, s) ==
  IF Not(condition) THEN Return(v, 0) ELSE parse(s, v)

\* { ...current, devParse: ... }: a new object with the own fields of
\* `current` and the field devParse, which comes last and so wins.
spreadWithDevParse(current) ==
  [f \in DOMAIN current \cup {"devParse"} |->
     IF f = "devParse" THEN Fn("devParse") ELSE current[f]]

\* A withDev that writes devParse into the schema it is given and returns it.
withDevMixinInPlace(current, cond) ==
  [status |-> "return", value |-> spreadWithDevParse(current), error |-> NoError,
   parses |-> 0, input |-> spreadWithDevParse(current)]

\* withDev(current, condition): the returned object, with the schema object
\* as the call leaves it recorded beside it.
withDevMixin(current, cond) ==
  [status |-> "return", value |-> spreadWithDevParse(current), error |-> NoError,
   parses |-> 0, input |-> current]

\* createWithDev(condition)(current)
createWithDevMixin(cond, current) ==
  [status |-> "return", value |-> spreadWithDevParse(current), error |-> NoError,
   parses |-> 0, input |-> current]

\* ------------------------------------------- createArrayOperations
\* An isCollection that validates against the schema of one record.
isCollectionItemSchema(cond, s, value) == createDevParse(cond, value, s)

\* An isCollection that marks every record it has validated with a new key.
isCollectionMarks(cond, s, value) ==
  LET out == createDevParse(cond, value, ArraySchema(s))
  IN IF cond /\ out.status = "return"
     THEN [out EXCEPT !.value = Arr([i \in 1..Len(out.value.items) |->
                                       [out.value.items[i] EXCEPT !.extra = TRUE]])]
     ELSE out

\* const isCollection = (value) => devParse(value, z.array(schema))
isCollection(cond, s, value) == createDevParse(cond, value, ArraySchema(s))

\* The caller's array as the call leaves it, recorded beside the outcome.
\* No statement of the operations writes to the array they are given.
WithInput(collection, out) ==
  [status |-> out.status, value |-> out.value, error |-> out.error,
   parses |-> out.parses, input |-> collection]

Min(S) == CHOOSE x \in S : \A y \in S : x <= y

\* The callbacks a caller may pass as a query: (item) => ...
QueryFns == {"idIsA", "idIsB", "self", "nothing", "hasExtra"}

applyQuery(name, item) ==
  CASE name = "idIsA" -> Bool(item.id = "a")
    [] name = "idIsB" -> Bool(item.id = "b")
    [] name = "self" -> item
    [] name = "hasExtra" -> IF item.extra THEN Bool(TRUE) ELSE Undefined
    [] OTHER -> Undefined

\* The callbacks a caller may pass as an operation: (item) => ({...item, ...})
OperationFns == {"incAge", "addExtra", "spoil"}

applyOperation(name, item) ==
  CASE name = "incAge" -> [item EXCEPT !.age = @ + 1]
    [] name = "addExtra" -> [item EXCEPT !.extra = TRUE]
    [] OTHER -> [item EXCEPT !.age = -1]

\* (singleItem) => { singleItem.id === singleId; }  -- a block body that
\* evaluates the comparison and returns nothing.
idCallback(singleItem, singleId) == Undefined

\* inner.findIndex(callback): the 0-based position of the first item the
\* callback is truthy for, or -1.
findIndex(items, singleId) ==
  LET hits == {i \in 1..Len(items) : Truthy(idCallback(items[i], singleId))}
  IN IF hits = {} THEN -1 ELSE Min(hits) - 1

\* for (const singleItem of inner) { if (queryAsFunction(singleItem))
\* result.push(count); count += 1 }, from the iteration at `count` on.
RECURSIVE forOf(_, _, _, _)
forOf(inner, name, count, result) ==
  IF count = Len(inner) THEN result
  ELSE forOf(inner, name, count + 1,
             IF Truthy(applyQuery(name, inner[count + 1]))
             THEN Append(result, count)
             ELSE result)

\* A loop that leaves at the first item the query function is truthy for.
matchingIndicesFirstOnly(items, name) ==
  LET result == forOf(items, name, 0, <<>>)
  IN IF result = <<>> THEN result ELSE <<result[1]>>

\* The 0-based positions, ascending, of the items the query function is
\* truthy for.
matchingIndices(items, name) == forOf(items, name, 0, <<>>)

\* getIndices from `const inner = isCollection(collection)` on.
getIndicesLookup(cond, s, collection, query) ==
    LET inner == isCollection(cond, s, collection)
    IN IF inner.status = "throw" THEN inner
       ELSE IF query.kind # "function"
       THEN LET queryAsStrings == IF query.kind = "array" THEN query.items ELSE <<query.str>>
                found == [k \in 1..Len(queryAsStrings) |->
                            findIndex(inner.value.items, queryAsStrings[k])]
                missing == {k \in 1..Len(queryAsStrings) : found[k] = -1}
            IN IF missing # {}
               THEN Throw(NotFoundError(queryAsStrings[Min(missing)]), inner.parses)
               ELSE Return(Arr([k \in 1..Len(found) |-> Num(found[k])]), inner.parses)
       ELSE LET result == matchingIndices(inner.value.items, query.name)
            IN Return(Arr([k \in 1..Len(result) |-> Num(result[k])]), inner.parses)

\* The two argument checks in the other order.
getIndicesOutcomeQueryFirst(cond, s, collection, query) ==
  IF ~Truthy(query) THEN Throw(Error("No query supplied"), 0)
  ELSE IF ~Truthy(collection) THEN Throw(Error("No collection supplied"), 0)
  ELSE getIndicesLookup(cond, s, collection, query)

getIndicesOutcome(cond, s, collection, query) ==
  IF ~Truthy(collection) THEN Throw(Error("No collection supplied"), 0)
  ELSE IF ~Truthy(query) THEN Throw(Error("No query supplied"), 0)
  ELSE getIndicesLookup(cond, s, collection, query)

getIndices(cond, s, collection, query) ==
  WithInput(collection, getIndicesOutcome(cond, s, collection, query))

\* indices.includes(index)
includes(indices, index) == \E k \in 1..Len(indices) : indices[k] = Num(index)

\* inner.filter(callback) from position `index` on, where `keeps` says what
\* the callback returns when indices.includes(index) is the given boolean.
RECURSIVE filter(_, _, _, _)
filter(inner, indices, index, keeps) ==
  IF index = Len(inner) THEN <<>>
  ELSE (IF keeps[includes(indices, index)] THEN <<inner[index + 1]>> ELSE <<>>)
         \o filter(inner, indices, index + 1, keeps)

\* The filter without its negation: it keeps the records to remove.
filterOutKeepsMatched(items, indices) ==
  filter(items, indices, 0, [included \in BOOLEAN |-> included])

\* inner.filter((_, index) => !indices.includes(index))
filterOut(items, indices) ==
  filter(items, indices, 0, [included \in BOOLEAN |-> ~included])

removeOutcome(cond, s, collection, query) ==
  LET indices == getIndicesOutcome(cond, s, collection, query)
  IN IF indices.status = "throw" THEN indices
     ELSE LET inner == After(indices.parses, isCollection(cond, s, collection))
          IN IF inner.status = "throw" THEN inner
             ELSE After(inner.parses,
                        isCollection(cond, s, Arr(filterOut(inner.value.items, indices.value.items))))

\* A remove that splices the records out of the array it was given.
removeInPlace(cond, s, collection, query) ==
  LET out == removeOutcome(cond, s, collection, query)
  IN WithInput(IF out.status = "return" THEN out.value ELSE collection, out)

remove(cond, s, collection, query) ==
  WithInput(collection, removeOutcome(cond, s, collection, query))

\* A get that takes the records from the array it was given instead of from
\* the array isCollection returned.
getOutcomeFromCollection(cond, s, collection, query) ==
  LET indices == getIndicesOutcome(cond, s, collection, query)
  IN IF indices.status = "throw" THEN indices
     ELSE LET inner == After(indices.parses, isCollection(cond, s, collection))
          IN IF inner.status = "throw" THEN inner
             ELSE After(inner.parses,
                        isCollection(cond, s,
                          Arr([k \in 1..Len(indices.value.items) |->
                                 collection.items[indices.value.items[k].num + 1]])))

getOutcome(cond, s, collection, query) ==
  LET indices == getIndicesOutcome(cond, s, collection, query)
  IN IF indices.status = "throw" THEN indices
     ELSE LET inner == After(indices.parses, isCollection(cond, s, collection))
          IN IF inner.status = "throw" THEN inner
             ELSE After(inner.parses,
                        isCollection(cond, s,
                          Arr([k \in 1..Len(indices.value.items) |->
                                 inner.value.items[indices.value.items[k].num + 1]])))

get(cond, s, collection, query) ==
  WithInput(collection, getOutcome(cond, s, collection, query))

\* The `position === "start"` branch is missing: add always appends.
addOutcomeAlwaysAppends(cond, s, collection, values, position) ==
  LET inner == isCollection(cond, s, collection)
      valuesAsArray == IF values.kind = "array" THEN values.items ELSE <<values>>
  IN IF inner.status = "throw" THEN inner
     ELSE IF inner.value.kind # "array" THEN Throw(TypeError, inner.parses)
     ELSE After(inner.parses, isCollection(cond, s, Arr(inner.value.items \o valuesAsArray)))

addOutcome(cond, s, collection, values, position) ==
  LET inner == isCollection(cond, s, collection)
      valuesAsArray == IF values.kind = "array" THEN values.items ELSE <<values>>
  IN IF inner.status = "throw" THEN inner
     \* [...inner] of undefined is not iterable
     ELSE IF inner.value.kind # "array" THEN Throw(TypeError, inner.parses)
     ELSE IF position = Str("start")
     THEN After(inner.parses, isCollection(cond, s, Arr(valuesAsArray \o inner.value.items)))
     ELSE After(inner.parses, isCollection(cond, s, Arr(inner.value.items \o valuesAsArray)))

add(cond, s, collection, values, position) ==
  WithInput(collection, addOutcome(cond, s, collection, values, position))

\* `return isCollection(filtered)`: the mapped result is dropped.
updateOutcomeReturnsFiltered(cond, s, collection, operation, query) ==
  IF ~Truthy(operation) THEN Throw(Error("No operation supplied"), 0)
  ELSE
    LET filtered == IF Truthy(query)
                    THEN removeOutcome(cond, s, collection, query)
                    ELSE Return(collection, 0)
    IN IF filtered.status = "throw" THEN filtered
       ELSE IF filtered.value.kind # "array" THEN Throw(TypeError, filtered.parses)
       ELSE After(filtered.parses, isCollection(cond, s, filtered.value))

updateOutcome(cond, s, collection, operation, query) ==
  IF ~Truthy(operation) THEN Throw(Error("No operation supplied"), 0)
  ELSE
    LET filtered == IF Truthy(query)
                    THEN removeOutcome(cond, s, collection, query)
                    ELSE Return(collection, 0)
    IN IF filtered.status = "throw" THEN filtered
       \* undefined.map
       ELSE IF filtered.value.kind # "array" THEN Throw(TypeError, filtered.parses)
       ELSE After(filtered.parses,
                  isCollection(cond, s,
                    Arr([i \in 1..Len(filtered.value.items) |->
                           applyOperation(operation.name, filtered.value.items[i])])))

update(cond, s, collection, operation, query) ==
  WithInput(collection, updateOutcome(cond, s, collection, operation, query))

\* ------------------------------------------------------------------ state
VARIABLES
  condition,   \* the condition captured by the factories
  mode,        \* the item schema handed to the factories
  data,        \* the caller's collection
  call,        \* the last call: its name, its arguments and its outcome
  prev         \* the call whose result the last call was given, if any

vars == <<condition, mode, data, call, prev>>

schema == ItemSchema(mode)

Ids == {"a", "b"}

\* The ages of the README's two records; -1 is an age the schema rejects.
ReadmeAge(id) == IF id = "a" THEN 24 ELSE 39

Items ==
  UNION {{Obj(id, age, extra) : age \in {-1, ReadmeAge(id)}, extra \in BOOLEAN} : id \in Ids}

\* Records a caller adds under a new id: one carrying a key the schema does
\* not declare, one the schema rejects.
NewItems == {Obj("c", 24, TRUE), Obj("c", -1, FALSE)}

IsInjective(t) == \A i, j \in 1..Len(t) : t[i] = t[j] => i = j

RECURSIVE SeqsUpTo(_, _)
SeqsUpTo(S, n) ==
  IF n = 0 THEN {<<>>}
  ELSE LET shorter == SeqsUpTo(S, n - 1)
       IN shorter \cup {Append(t, x) : t \in {u \in shorter : Len(u) = n - 1}, x \in S}

Collections == {Arr(t) : t \in SeqsUpTo(Items, MaxLen)}

\* Identifiers asked for: those of Ids and one no record carries.
QueryIds == Ids \cup {"c"}

Queries ==
  {Undefined, Str("")}
    \cup {Str(id) : id \in QueryIds}
    \cup {Arr(t) : t \in {u \in SeqsUpTo(QueryIds, MaxArgs) : IsInjective(u)}}
    \cup {Fn(n) : n \in QueryFns}

Operations == {Undefined} \cup {Fn(n) : n \in OperationFns}

Positions == {Undefined, Str("start"), Str("end")}

AddValues == NewItems \cup {Arr(t) : t \in SeqsUpTo(NewItems, MaxArgs)}

NoCall ==
  [op |-> "none", cond |-> FALSE, collection |-> Undefined, value |-> Undefined,
   query |-> Undefined, values |-> Undefined, position |-> Undefined,
   operation |-> Undefined, given |-> Undefined, out |-> Return(Undefined, 0)]

Init ==
  /\ condition \in BOOLEAN
  /\ mode \in Modes
  /\ data \in Collections \cup {Undefined}
  /\ call = NoCall
  /\ prev = NoCall

Idle == call.op = "none"

\* The records the caller has at hand to validate one by one.
ItemsAtHand == IF data.kind = "array" THEN {data.items[i] : i \in 1..Len(data.items)} ELSE {}

\* --------------------------------------------------------- gate actions
CallWithDev ==
  \E cond \in BOOLEAN, v \in ItemsAtHand :
    /\ Idle
    /\ call' = [NoCall EXCEPT !.op = "withDev", !.cond = cond, !.value = v,
                              !.out = withDev(schema, cond, v)]
    /\ UNCHANGED <<condition, mode, data, prev>>

CallCreateWithDev ==
  \E v \in ItemsAtHand :
    /\ Idle
    /\ call' = [NoCall EXCEPT !.op = "createWithDev", !.cond = condition, !.value = v,
                              !.out = createWithDev(condition, schema, v)]
    /\ UNCHANGED <<condition, mode, data, prev>>

CallCreateDevParse ==
  \E v \in ItemsAtHand :
    /\ Idle
    /\ call' = [NoCall EXCEPT !.op = "createDevParse", !.cond = condition, !.value = v,
                              !.out = createDevParse(condition, v, schema)]
    /\ UNCHANGED <<condition, mode, data, prev>>

\* devParse(value, schema), as the README calls it, on the function made by
\* the createDevParse of src/index.ts.
CallIndexCreateDevParse ==
  \E v \in ItemsAtHand :
    /\ Idle
    /\ call' = [NoCall EXCEPT !.op = "indexCreateDevParse", !.cond = condition, !.value = v,
                              !.out = indexCreateDevParse(condition, v, schema)]
    /\ UNCHANGED <<condition, mode, data, prev>>

\* The values a caller may pass as the condition: a boolean, or a function
\* of no arguments that produces one.
Conditions == {Bool(TRUE), Bool(FALSE), Fn("returnsTrue"), Fn("returnsFalse")}

\* withDev(schema, given).devParse(v)
CallWithDevGiven ==
  \E given \in Conditions, v \in ItemsAtHand :
    /\ Idle
    /\ call' = [NoCall EXCEPT !.op = "withDevGiven", !.given = given, !.value = v,
                              !.out = withDevGiven(schema, given, v)]
    /\ UNCHANGED <<condition, mode, data, prev>>

\* createDevParse(given)(v, schema)
CallCreateDevParseGiven ==
  \E given \in Conditions, v \in ItemsAtHand :
    /\ Idle
    /\ call' = [NoCall EXCEPT !.op = "createDevParseGiven", !.given = given, !.value = v,
                              !.out = createDevParseGiven(given, v, schema)]
    /\ UNCHANGED <<condition, mode, data, prev>>

\* const wrapped = withDev(schema, cond)
CallWithDevMixin ==
  \E cond \in BOOLEAN :
    /\ Idle
    /\ call' = [NoCall EXCEPT !.op = "withDevMixin", !.cond = cond, !.value = schema,
                              !.out = withDevMixin(schema, cond)]
    /\ UNCHANGED <<condition, mode, data, prev>>

\* const wrapped = createWithDev(condition)(schema)
CallCreateWithDevMixin ==
  /\ Idle
  /\ call' = [NoCall EXCEPT !.op = "createWithDevMixin", !.cond = condition, !.value = schema,
                            !.out = createWithDevMixin(condition, schema)]
  /\ UNCHANGED <<condition, mode, data, prev>>

\* ---------------------------------------------------- collection actions
CallIsCollection ==
  /\ Idle
  /\ call' = [NoCall EXCEPT !.op = "isCollection", !.cond = condition, !.value = data,
                            !.out = isCollection(condition, schema, data)]
  /\ UNCHANGED <<condition, mode, data, prev>>

\* isCollection(isCollection(value)): the result of one call is given to the next.
CallIsCollectionAgain ==
  /\ call.op = "isCollection"
  /\ call.out.status = "return"
  /\ prev = NoCall
  /\ call' = [NoCall EXCEPT !.op = "isCollection", !.cond = condition,
                            !.value = call.out.value,
                            !.out = isCollection(condition, schema, call.out.value)]
  /\ prev' = call
  /\ UNCHANGED <<condition, mode, data>>

CallGetIndices ==
  \E query \in Queries :
    LET out == getIndices(condition, schema, data, query)
    IN /\ Idle
       /\ call' = [NoCall EXCEPT !.op = "getIndices", !.cond = condition,
                                 !.collection = data, !.query = query, !.out = out]
       /\ data' = out.input
       /\ UNCHANGED <<condition, mode, prev>>

CallGet ==
  \E query \in Queries :
    LET out == get(condition, schema, data, query)
    IN /\ Idle
       /\ call' = [NoCall EXCEPT !.op = "get", !.cond = condition,
                                 !.collection = data, !.query = query, !.out = out]
       /\ data' = out.input
       /\ UNCHANGED <<condition, mode, prev>>

CallRemove ==
  \E query \in Queries :
    LET out == remove(condition, schema, data, query)
    IN /\ Idle
       /\ call' = [NoCall EXCEPT !.op = "remove", !.cond = condition,
                                 !.collection = data, !.query = query, !.out = out]
       /\ data' = out.input
       /\ UNCHANGED <<condition, mode, prev>>

CallAdd ==
  \E values \in AddValues, position \in Positions :
    LET out == add(condition, schema, data, values, position)
    IN /\ Idle
       /\ call' = [NoCall EXCEPT !.op = "add", !.cond = condition, !.collection = data,
                                 !.values = values, !.position = position, !.out = out]
       /\ data' = out.input
       /\ UNCHANGED <<condition, mode, prev>>

CallUpdate ==
  \E operation \in Operations, query \in Queries :
    LET out == update(condition, schema, data, operation, query)
    IN /\ Idle
       /\ call' = [NoCall EXCEPT !.op = "update", !.cond = condition, !.collection = data,
                                 !.operation = operation, !.query = query, !.out = out]
       /\ data' = out.input
       /\ UNCHANGED <<condition, mode, prev>>

\* The caller puts records of its collection back into the collection that
\* remove returned: add(remove(data, query), records, position).
TakenOut ==
  LET items == data.items
      n == Len(items)
  IN {items[i] : i \in 1..n}
       \cup {Arr(SubSeq(items, 1, k)) : k \in 0..n}
       \cup {Arr(SubSeq(items, k + 1, n)) : k \in 0..n}

CallAddBack ==
  /\ call.op = "remove"
  /\ call.out.status = "return"
  /\ prev = NoCall
  /\ \E values \in TakenOut, position \in Positions :
       LET out == add(condition, schema, call.out.value, values, position)
       IN /\ call' = [NoCall EXCEPT !.op = "add", !.cond = condition,
                                    !.collection = call.out.value, !.values = values,
                                    !.position = position, !.out = out]
          /\ prev' = call
          /\ UNCHANGED <<condition, mode, data>>

\* The caller moves on to its next statement.
Finish ==
  /\ ~Idle
  /\ call' = NoCall
  /\ prev' = NoCall
  /\ UNCHANGED <<condition, mode, data>>

Next ==
  \/ CallWithDev
  \/ CallCreateWithDev
  \/ CallCreateDevParse
  \/ CallIndexCreateDevParse
  \/ CallWithDevGiven
  \/ CallCreateDevParseGiven
  \/ CallWithDevMixin
  \/ CallCreateWithDevMixin
  \/ CallIsCollection
  \/ CallIsCollectionAgain
  \/ CallGetIndices
  \/ CallGet
  \/ CallRemove
  \/ CallAdd
  \/ CallUpdate
  \/ CallAddBack
  \/ Finish

Spec == Init /\ [][Next]_vars

\* ------------------------------------------------------------ claims
GateOps == {"withDev", "createWithDev", "createDevParse"}

CollectionOps == {"getIndices", "get", "remove", "add", "update"}

\* C1: with the condition false, the devParse of withDev, createWithDev and
\* createDevParse returns exactly the value it was given, never invokes the
\* schema's parse and never reports an error, also for a value that does not
\* conform to the schema.
C1_DisabledGateIsIdentity ==
  (call.op \in GateOps /\ ~call.cond) =>
    /\ call.out.status = "return"
    /\ call.out.value = call.value
    /\ call.out.error = NoError
    /\ call.out.parses = 0

C1_Witness ==
  /\ call.op = "createDevParse"
  /\ ~call.cond
  /\ ~Conforms(schema, call.value)
  /\ call.out.value = call.value

\* C2: with the condition true, devParse returns what the schema's parse
\* returns for the value (normalisation included) when the value conforms, and
\* otherwise fails with the validator's own error and returns no value.
C2_EnabledGateIsParse ==
  (call.op \in GateOps /\ call.cond) =>
    /\ call.out.parses = 1
    /\ IF Conforms(schema, call.value)
       THEN /\ call.out.status = "return"
            /\ call.out.value = Output(schema, call.value)
            /\ call.out.error = NoError
       ELSE /\ call.out.status = "throw"
            /\ call.out.error = ZodError
            /\ call.out.value = Undefined

C2_Witness ==
  /\ call.op = "createDevParse"
  /\ call.cond
  /\ Conforms(schema, call.value)
  /\ call.out.status = "return"
  /\ call.out.value # call.value

\* ------------------------------------------------ what the claims speak of
IsIdQuery(query) == Truthy(query) /\ query.kind \in {"string", "array"}

IdsOf(query) == IF query.kind = "array" THEN query.items ELSE <<query.str>>

\* The 0-based position of the first record whose id is `id`, or -1.
FirstWithId(items, id) ==
  LET hits == {i \in 1..Len(items) : items[i].id = id}
  IN IF hits = {} THEN -1 ELSE Min(hits) - 1

\* The record at 1-based position i is one the query selects.
Selected(query, items, i) ==
  IF query.kind = "function"
  THEN Truthy(applyQuery(query.name, items[i]))
  ELSE \E k \in 1..Len(IdsOf(query)) : IdsOf(query)[k] = items[i].id

\* The collection is an array the gate of this call lets through.
GatePasses(cond, collection) ==
  /\ collection.kind = "array"
  /\ (cond => Conforms(ArraySchema(schema), collection))

\* A record as the gate of this call hands it on.
GateItem(cond, v) == IF cond THEN ItemOutput(mode, v) ELSE v

\* A collection as the gate of this call hands it on: record by record, the
\* records that do not conform left as they are.
Gated(cond, collection) ==
  Arr([i \in 1..Len(collection.items) |->
         IF ItemConforms(mode, collection.items[i])
         THEN GateItem(cond, collection.items[i])
         ELSE collection.items[i]])

\* C3: getIndices with one identifier or a list of identifiers returns, for
\* each identifier in the order given, the position of the first record with
\* that id, and fails with a not-found error if and only if some identifier
\* matches no record.
C3_GetIndicesById ==
  (call.op = "getIndices" /\ IsIdQuery(call.query) /\ GatePasses(call.cond, call.collection)) =>
    LET ids == IdsOf(call.query)
        expected == [k \in 1..Len(ids) |-> FirstWithId(call.collection.items, ids[k])]
        absent == {k \in 1..Len(ids) : expected[k] = -1}
    IN IF absent = {}
       THEN /\ call.out.status = "return"
            /\ call.out.value = Arr([k \in 1..Len(ids) |-> Num(expected[k])])
       ELSE call.out.status = "throw"
              /\ call.out.error \in {NotFoundError(ids[k]) : k \in absent}

\* C4: update with a query returns a collection of the input's length, in the
\* original order, where every record the query selects is replaced by
\* operation(record) and every other record is left untouched.
C4_UpdateWithQuery ==
  (/\ call.op = "update"
   /\ Truthy(call.operation)
   /\ Truthy(call.query)
   /\ call.out.status = "return") =>
    LET items == call.collection.items
        result == call.out.value.items
    IN /\ Len(result) = Len(items)
       /\ \A i \in 1..Len(items) :
            result[i] = IF Selected(call.query, items, i)
                        THEN applyOperation(call.operation.name, items[i])
                        ELSE items[i]

\* C5 as stated: update without a query returns, in the original order and
\* with the input's length, result[i] = operation(collection[i]).
C5_UpdateAll ==
  (/\ call.op = "update"
   /\ Truthy(call.operation)
   /\ ~Truthy(call.query)
   /\ call.out.status = "return") =>
    LET items == call.collection.items
        result == call.out.value.items
    IN /\ Len(result) = Len(items)
       /\ \A i \in 1..Len(items) :
            result[i] = applyOperation(call.operation.name, items[i])

\* C5 as amended: update without a query maps the operation over every
\* record in order and returns the mapped collection as the gate hands it on:
\* result[i] is operation(collection[i]) with the condition false, and the
\* validator's output for operation(collection[i]) with the condition true
\* (the call failing with the validator's error if a mapped record does not
\* conform).
C5_UpdateAllGated ==
  (/\ call.op = "update"
   /\ Truthy(call.operation)
   /\ ~Truthy(call.query)
   /\ call.collection.kind = "array") =>
    LET items == call.collection.items
        mapped == [i \in 1..Len(items) |-> applyOperation(call.operation.name, items[i])]
    IN IF call.cond /\ ~Conforms(ArraySchema(schema), Arr(mapped))
       THEN call.out.status = "throw" /\ call.out.error = ZodError
       ELSE /\ call.out.status = "return"
            /\ Len(call.out.value.items) = Len(items)
            /\ \A i \in 1..Len(items) :
                 call.out.value.items[i] = GateItem(call.cond, mapped[i])

\* The README's scenario: ages 24 and 39 incremented give 25 and 40.
C5_Witness ==
  /\ call.op = "update"
  /\ call.operation = Fn("incAge")
  /\ call.query = Undefined
  /\ call.collection = Arr(<<Obj("a", 24, FALSE), Obj("b", 39, FALSE)>>)
  /\ call.out.status = "return"
  /\ call.out.value = Arr(<<Obj("a", 25, FALSE), Obj("b", 40, FALSE)>>)

\* The records add is asked to add, as a sequence.
ValuesAsSeq(values) == IF values.kind = "array" THEN values.items ELSE <<values>>

\* The concatenation add is asked for.
Concatenation(collection, values, position) ==
  IF position = Str("start")
  THEN ValuesAsSeq(values) \o collection.items
  ELSE collection.items \o ValuesAsSeq(values)

\* C6 as stated: add returns the concatenation of the existing and the added
\* records, the added ones first with "start" and last otherwise, a single
\* record counting as a one-element sequence.
C6_AddConcatenates ==
  (call.op = "add" /\ call.out.status = "return") =>
    call.out.value.items = Concatenation(call.collection, call.values, call.position)

\* C6 as amended: add returns the concatenation (added records first with
\* "start", last with "end" or no position, a single record counting as a
\* one-element sequence, the length the sum of both) as the gate hands it on:
\* the records themselves with the condition false; with the condition true
\* the validator's output for the concatenation of the collection as the
\* validator returned it and the added records.
C6_AddConcatenatesGated ==
  (call.op = "add" /\ call.collection.kind = "array") =>
    LET all == Concatenation(Gated(call.cond, call.collection), call.values, call.position)
    IN IF call.cond /\ ~Conforms(ArraySchema(schema), Arr(all))
       THEN call.out.status = "throw" /\ call.out.error = ZodError
       ELSE /\ call.out.status = "return"
            /\ Len(call.out.value.items) =
                 Len(call.collection.items) + Len(ValuesAsSeq(call.values))
            /\ \A i \in 1..Len(all) : call.out.value.items[i] = GateItem(call.cond, all[i])

C6_Witness ==
  /\ call.op = "add"
  /\ call.position = Str("start")
  /\ call.values.kind = "object"
  /\ call.collection.kind = "array"
  /\ Len(call.collection.items) = MaxLen
  /\ call.out.status = "return"
  /\ call.out.value.items[1].id = call.values.id
  /\ Len(call.out.value.items) = MaxLen + 1

\* The records of `items` whose 0-based positions are not in `indices`.
Remaining(items, indices) ==
  LET keep == {i \in 1..Len(items) : \A k \in 1..Len(indices) : indices[k] # Num(i - 1)}
      RECURSIVE from(_)
      from(i) == IF i > Len(items) THEN <<>>
                 ELSE IF i \in keep THEN <<items[i]>> \o from(i + 1) ELSE from(i + 1)
  IN from(1)

\* The records of `items` the predicate is falsy for.
RECURSIVE Falsy(_, _)
Falsy(items, name) ==
  IF items = <<>> THEN <<>>
  ELSE (IF Truthy(applyQuery(name, Head(items))) THEN <<>> ELSE <<Head(items)>>)
         \o Falsy(Tail(items), name)

\* C7 as stated: remove returns exactly the records whose positions are not
\* among those getIndices returns for the query, in their original order;
\* with a predicate, precisely the records the predicate is falsy for.
C7_RemoveComplement ==
  LET indices == getIndicesOutcome(call.cond, schema, call.collection, call.query)
  IN (call.op = "remove" /\ indices.status = "return") =>
       /\ call.out.status = "return"
       /\ call.out.value.items = Remaining(call.collection.items, indices.value.items)
       /\ (call.query.kind = "function" =>
             call.out.value.items = Falsy(call.collection.items, call.query.name))

\* C7 as amended: remove returns the records whose positions are not among
\* those getIndices returns for the query (with a predicate, the records the
\* predicate is falsy for), in their original order, as the gate hands them
\* on: the records themselves with the condition false; with the condition
\* true the validator's output for the records left of the collection as the
\* validator returned it.
C7_RemoveComplementGated ==
  LET indices == getIndicesOutcome(call.cond, schema, call.collection, call.query)
      gated(items) == [i \in 1..Len(items) |-> GateItem(call.cond, items[i])]
  IN (call.op = "remove" /\ indices.status = "return") =>
       LET inner == Gated(call.cond, call.collection).items
       IN /\ call.out.status = "return"
          /\ call.out.value.items = gated(Remaining(inner, indices.value.items))
          /\ (call.query.kind = "function" =>
                call.out.value.items = gated(Falsy(inner, call.query.name)))

\* Removing the record matching "b" from [a, b] yields [a].
C7_Witness ==
  /\ call.op = "remove"
  /\ call.query = Fn("idIsB")
  /\ call.collection = Arr(<<Obj("a", 24, FALSE), Obj("b", 39, FALSE)>>)
  /\ call.out.status = "return"
  /\ call.out.value = Arr(<<Obj("a", 24, FALSE)>>)

\* The collection a call was given, and whether its other required
\* arguments were there.
InputOf(c) == IF c.op = "isCollection" THEN c.value ELSE c.collection

ArgumentsGiven(c) ==
  /\ (c.op \in {"getIndices", "get", "remove"} => Truthy(c.query))
  /\ (c.op = "update" => Truthy(c.operation))

\* C8: with the condition enabled every collection operation validates its
\* input collection and its output against the array-of-schema validator: a
\* call whose input collection does not conform fails with the validator's
\* error whatever the callback does, and every collection returned conforms.
C8_InputsAndOutputsValidated ==
  (call.cond /\ call.op \in CollectionOps \cup {"isCollection"}) =>
    /\ (/\ InputOf(call).kind = "array"
        /\ ArgumentsGiven(call)
        /\ ~Conforms(ArraySchema(schema), InputOf(call)))
         => (call.out.status = "throw" /\ call.out.error = ZodError)
    /\ (call.out.status = "return" /\ call.op # "getIndices")
         => Conforms(ArraySchema(schema), call.out.value)

\* C9: no collection operation changes its input: after a call of getIndices,
\* get, remove, add or update, returning or failing, the array the call was
\* given holds the same records in the same order as before the call, and a
\* failing call returns no value.
C9_InputUnchanged ==
  (call.op \in CollectionOps) =>
    /\ call.out.input = call.collection
    /\ (prev.op = "none" => data = call.collection)
    /\ (call.out.status = "throw" => call.out.value = Undefined)

C9_Witness ==
  /\ call.op = "remove"
  /\ call.out.status = "return"
  /\ Len(call.collection.items) = MaxLen
  /\ Len(call.out.value.items) < MaxLen
  /\ data = call.collection

DistinctIds(items) == \A i, j \in 1..Len(items) : items[i].id = items[j].id => i = j

\* The query, by identifier or by predicate, selects exactly the records at
\* the 1-based positions lo..hi, and every identifier it names is there.
SelectsExactly(query, items, lo, hi) ==
  /\ Truthy(query)
  /\ \A i \in 1..Len(items) : Selected(query, items, i) <=> i \in lo..hi
  /\ (query.kind # "function" =>
        \A k \in 1..Len(IdsOf(query)) : FirstWithId(items, IdsOf(query)[k]) # -1)

\* `values` are the records of `part`, as a list or as the single record.
AreTheRecords(values, part) ==
  \/ values = Arr(part)
  \/ Len(part) = 1 /\ values = part[1]

\* C10: for a collection with distinct ids, remove (by id or by predicate) of
\* a prefix followed by add of those records at "start", or of a suffix
\* followed by add at "end", yields a collection equal to the original.
C10_RemoveThenAddRestores ==
  /\ (/\ call.op = "remove"
      /\ GatePasses(call.cond, call.collection)
      /\ DistinctIds(call.collection.items)
      /\ \E k \in 0..Len(call.collection.items) :
           \/ SelectsExactly(call.query, call.collection.items, 1, k)
           \/ SelectsExactly(call.query, call.collection.items, k + 1,
                             Len(call.collection.items)))
       => call.out.status = "return"
  /\ (/\ call.op = "add"
      /\ prev.op = "remove"
      /\ DistinctIds(prev.collection.items)
      /\ LET items == prev.collection.items
             n == Len(items)
         IN \E k \in 0..n :
              \/ /\ SelectsExactly(prev.query, items, 1, k)
                 /\ AreTheRecords(call.values, SubSeq(items, 1, k))
                 /\ call.position = Str("start")
              \/ /\ SelectsExactly(prev.query, items, k + 1, n)
                 /\ AreTheRecords(call.values, SubSeq(items, k + 1, n))
                 /\ call.position \in {Str("end"), Undefined})
       => (call.out.status = "return" /\ call.out.value = prev.collection)

\* C11: an absent required argument is reported by the matching error and no
\* result is returned: getIndices, get and remove fail with "No collection
\* supplied" when the collection is absent, and with "No query supplied" when
\* the collection is present and the query is absent; update fails with "No
\* operation supplied" when the operation is absent.
C11_MissingArguments ==
  /\ (call.op \in {"getIndices", "get", "remove"} /\ call.collection = Undefined) =>
        /\ call.out.status = "throw"
        /\ call.out.error = Error("No collection supplied")
        /\ call.out.value = Undefined
  /\ (/\ call.op \in {"getIndices", "get", "remove"}
      /\ call.collection.kind = "array"
      /\ call.query = Undefined) =>
        /\ call.out.status = "throw"
        /\ call.out.error = Error("No query supplied")
        /\ call.out.value = Undefined
  /\ (call.op = "update" /\ call.operation = Undefined) =>
        /\ call.out.status = "throw"
        /\ call.out.error = Error("No operation supplied")
        /\ call.out.value = Undefined

\* get is called with neither a collection nor a query.
C11_Witness ==
  /\ call.op = "get"
  /\ call.collection = Undefined
  /\ call.query = Undefined
  /\ call.out.error = Error("No collection supplied")

\* C12: the function returned by createDevParse(condition) takes the value
\* first and the schema second: devParse(value, schema) returns value when the
\* condition is false and the result of validating value against schema when
\* it is true.
C12_ValueThenSchema ==
  (call.op \in {"createDevParse", "indexCreateDevParse"}) =>
    IF ~call.cond
    THEN call.out.status = "return" /\ call.out.value = call.value
    ELSE /\ call.out.status = parse(schema, call.value).status
         /\ call.out.value = parse(schema, call.value).value
         /\ call.out.error = parse(schema, call.value).error

\* C13: withDev and the function returned by createWithDev leave the schema
\* they are given untouched: it has the same fields after the call as before
\* and no devParse, while the returned object carries every field of the
\* schema, so that its parse validates as the schema does, plus devParse.
C13_SchemaUntouched ==
  (call.op \in {"withDevMixin", "createWithDevMixin"}) =>
    /\ call.out.status = "return"
    /\ call.out.input = call.value
    /\ "devParse" \notin DOMAIN call.out.input
    /\ \A f \in DOMAIN call.value :
         f \in DOMAIN call.out.value /\ call.out.value[f] = call.value[f]
    /\ "devParse" \in DOMAIN call.out.value
    /\ \A v \in ItemsAtHand : callParse(call.out.value, v) = parse(call.value, v)

C13_Witness ==
  /\ call.op = "createWithDevMixin"
  /\ call.out.value.devParse = Fn("devParse")
  /\ call.out.value.mode = mode
  /\ \E v \in ItemsAtHand : callParse(call.out.value, v).status = "return"

\* isCollection was applied to the value an earlier isCollection returned.
IsCollectionTwice ==
  /\ call.op = "isCollection"
  /\ prev.op = "isCollection"
  /\ call.cond
  /\ prev.out.status = "return"
  /\ call.value = prev.out.value

\* C14 (as stated): with the condition enabled, for every value v that
\* isCollection accepts, isCollection(isCollection(v)) succeeds and equals
\* isCollection(v).
C14_IsCollectionIdempotent ==
  IsCollectionTwice =>
    /\ call.out.status = "return"
    /\ call.out.value = prev.out.value

\* C14 (amended): the same, for the schemas whose validator returns the values
\* it has returned unchanged: the object schemas that strip, keep or reject
\* undeclared keys and transform no field.
C14_IsCollectionIdempotentWithoutTransform ==
  (IsCollectionTwice /\ mode \in {"strip", "passthrough", "strict"}) =>
    /\ call.out.status = "return"
    /\ call.out.value = prev.out.value
    /\ call.out.error = NoError

C14_Witness ==
  /\ IsCollectionTwice
  /\ mode = "strip"
  /\ \E i \in 1..Len(prev.value.items) : prev.value.items[i].extra
  /\ call.out.value = prev.out.value

GivenOps == {"withDevGiven", "createDevParseGiven"}

\* What the condition of the call stands for: the boolean itself, or the
\* boolean the function produces.
Produces(given) == IF given.kind = "function" THEN given.name = "returnsTrue" ELSE given.b

\* C15 (as stated): the condition may be a boolean or a function of no
\* arguments producing a boolean, and in both shapes it decides whether
\* validation runs: where it stands for false every value passes through
\* unvalidated, where it stands for true the value is validated.
C15_ConditionDecides ==
  (call.op \in GivenOps) =>
    IF Produces(call.given)
    THEN call.out = parse(schema, call.value)
    ELSE call.out = Return(call.value, 0)

\* C15 (amended): the condition is used by its truthiness and never called:
\* false passes every value through unvalidated, true validates, and a
\* function given as the condition validates whatever it would produce.
C15_ConditionByTruthiness ==
  (call.op \in GivenOps) =>
    /\ call.given = Bool(FALSE) => call.out = Return(call.value, 0)
    /\ call.given = Bool(TRUE) => call.out = parse(schema, call.value)
    /\ call.given.kind = "function" => call.out = parse(schema, call.value)

C15_Witness ==
  /\ call.op = "withDevGiven"
  /\ call.given = Fn("returnsFalse")
  /\ call.out.status = "throw"
  /\ call.out.parses = 1

\* The 0-based positions of the records of `items` the predicate is truthy for.
TruthyPositions(items, name) ==
  {i - 1 : i \in {j \in 1..Len(items) : Truthy(applyQuery(name, items[j]))}}

\* C16: getIndices called with a predicate returns exactly the positions of
\* the records (of the collection as the gate hands it on) for which the
\* predicate gives a truthy result, boolean or not, each once and in strictly
\* ascending order; it never fails with a not-found error, and returns the
\* empty array when no record matches.
C16_GetIndicesByPredicate ==
  (call.op = "getIndices" /\ call.collection.kind = "array" /\ call.query.kind = "function") =>
    /\ call.out.status = "throw" => call.out.error = ZodError
    /\ GatePasses(call.cond, call.collection) =>
         /\ call.out.status = "return"
         /\ call.out.value.kind = "array"
         /\ LET inner == Gated(call.cond, call.collection).items
                r == call.out.value.items
            IN /\ \A k \in 1..Len(r) : r[k].kind = "number"
               /\ \A j, k \in 1..Len(r) : j < k => r[j].num < r[k].num
               /\ {r[k].num : k \in 1..Len(r)} = TruthyPositions(inner, call.query.name)
               /\ TruthyPositions(inner, call.query.name) = {} => r = <<>>

C16_Witness ==
  /\ call.op = "getIndices"
  /\ call.query = Fn("self")
  /\ call.out.status = "return"
  /\ call.out.value = Arr(<<Num(0), Num(1)>>)

\* The records of `items` at the positions p1..pk, in that order.
Project(items, positions) ==
  Arr([k \in 1..Len(positions) |-> items[positions[k].num + 1]])

\* What the gate of the call makes of a value given to it.
GateOf(cond, value) == IF cond THEN parse(ArraySchema(schema), value) ELSE Return(value, 0)

\* C17 (as stated): whenever getIndices(collection, query) returns positions
\* p1..pk, get(collection, query) returns the records collection[p1] ..
\* collection[pk] in that order, gated through the array validator, and
\* whenever getIndices fails get fails with the same error.
C17_GetAgreesWithGetIndices ==
  (call.op = "get") =>
    LET indices == getIndices(call.cond, schema, call.collection, call.query)
    IN IF indices.status = "throw"
       THEN call.out.status = "throw" /\ call.out.error = indices.error
       ELSE LET expected == GateOf(call.cond, Project(call.collection.items, indices.value.items))
            IN /\ call.out.status = expected.status
               /\ call.out.value = expected.value
               /\ call.out.error = expected.error

\* C17 (amended): the same, the records being those at p1..pk of the
\* collection as the validator returned it.
C17_GetAgreesWithGetIndicesGated ==
  (call.op = "get") =>
    LET indices == getIndices(call.cond, schema, call.collection, call.query)
    IN IF indices.status = "throw"
       THEN call.out.status = "throw" /\ call.out.error = indices.error
       ELSE LET expected == GateOf(call.cond, Project(Gated(call.cond, call.collection).items,
                                                      indices.value.items))
            IN /\ call.out.status = expected.status
               /\ call.out.value = expected.value
               /\ call.out.error = expected.error

C17_Witness ==
  /\ call.op = "get"
  /\ call.cond
  /\ mode = "transform"
  /\ call.query = Fn("idIsB")
  /\ call.out.status = "return"
  /\ Len(call.out.value.items) = 1
  /\ Len(call.collection.items) = 2
  /\ call.out.value.items[1].id = "b"

\* The call `c` as operations built with the condition `cond` carry it out.
Carried(c, cond) ==
  CASE c.op = "getIndices" -> getIndices(cond, schema, c.collection, c.query)
    [] c.op = "get" -> get(cond, schema, c.collection, c.query)
    [] c.op = "remove" -> remove(cond, schema, c.collection, c.query)
    [] c.op = "add" -> add(cond, schema, c.collection, c.values, c.position)
    [] c.op = "update" -> update(cond, schema, c.collection, c.operation, c.query)

\* The validator returns the values that conform unchanged.
ReturnsUnchanged ==
  \A v \in Items \cup NewItems : ItemConforms(mode, v) => ItemOutput(mode, v) = v

\* The collection given to the call, the records it adds and the records its
\* operation produces all conform to the schema.
AllConforming(c) ==
  /\ Conforms(ArraySchema(schema), c.collection)
  /\ c.op = "add" => \A k \in 1..Len(ValuesAsSeq(c.values)) :
                        ItemConforms(mode, ValuesAsSeq(c.values)[k])
  /\ c.op = "update" =>
       LET disabled == Carried(c, FALSE)
       IN disabled.status = "return" => Conforms(ArraySchema(schema), disabled.value)

\* C18: for a validator that returns conforming values unchanged, a call whose
\* collection, added records and operation results all conform returns the
\* same value, or fails with the same error, whether the operations were
\* built with the condition true or false.
C18_ConditionIrrelevantOnConforming ==
  (call.op \in CollectionOps /\ ReturnsUnchanged /\ AllConforming(call)) =>
    LET other == Carried(call, ~call.cond)
    IN /\ call.out.status = other.status
       /\ call.out.value = other.value
       /\ call.out.error = other.error

C18_Witness ==
  /\ call.op = "update"
  /\ call.cond
  /\ mode = "strict"
  /\ call.operation = Fn("incAge")
  /\ call.query = Undefined
  /\ AllConforming(call)
  /\ call.out.status = "return"
  /\ Len(call.out.value.items) = 2
  /\ call.out.parses > 0

====
